---- MODULE Spec2Model ----
(***************************************************************************)
(* Model of src/src/plagiarism_database.rs: the PlagiarismDatabase corpus  *)
(* store (trusted and untrusted partitions of TextEntry), the fragment     *)
(* indexer get_textfragments, the two matching strategies and the two      *)
(* pairwise queries check_untrusted_plagiarism / check_trusted_plagiarism. *)
(*                                                                         *)
(* Raw text is a sequence of whitespace-separated tokens; fragments are    *)
(* real strings (the words of a window joined by one space).  Positions    *)
(* are 0-based as in the Rust code.  The iteration order of a HashMap or   *)
(* HashSet is unspecified, so every query draws one order per collection.  *)
(***************************************************************************)
EXTENDS Integers, Sequences, FiniteSets, TLC

VARIABLES
    n,                \* PlagiarismDatabase.n : ngram size
    s,                \* PlagiarismDatabase.s : metric cutoff
    metric,           \* PlagiarismDatabase.metric
    trusted_texts,    \* owner id -> TextEntry
    untrusted_texts,  \* owner id -> TextEntry
    results,          \* the Vec<PlagiarismResult> returned by the last call
    panicked,         \* TRUE once an index expression hit a missing key
    last              \* the last call: its name, whether its HashMap::insert
                      \* returned Some(old entry), and (history) whether
                      \* that old entry held other fragments than the new

vars == <<n, s, metric, trusted_texts, untrusted_texts, results, panicked, last>>

----------------------------------------------------------------------------
(* Bounds and input sets *)

MaxEntries == 3
MaxIndexWords == 4

\* Owner ids of the full store; "x" is an owner of both partitions.
UntrustedOwners == {"x", "y"}
TrustedOwners == {"x", "t"}
\* Owner ids of the store that holds untrusted texts only.
SubmissionOwners == {"x", "y", "z"}
NgramSizes == {0, 1, 2}
Cutoffs == {1}
Metrics == {"Equal", "Lev"}
CleanWords == {"a", "b"}

\* Raw texts fed to the store: the empty text, a text with an upper-case
\* token, a text with repeated 2-grams, a text with a repeated word that is
\* one word away from the others.
Texts ==
    { <<>>,
      <<"A", "b">>,
      <<"a", "b", "a", "b">>,
      <<"b", "b">> }

\* Raw texts fed to the indexer alone: every text of at most MaxIndexWords
\* words over two words.
IndexTexts == UNION { [1..k -> {"a", "b"}] : k \in 0..MaxIndexWords }

----------------------------------------------------------------------------
(* Generic helpers *)

Range(f) == { f[i] : i \in DOMAIN f }

\* The orders in which an iterator may visit the members of a hash
\* collection: every enumeration without repetition.
Perms(S) ==
    { q \in [1..Cardinality(S) -> S] : \A i, j \in DOMAIN q : i # j => q[i] # q[j] }

\* One iteration order of `fragments` for every entry of a partition.
AllOrders(texts) ==
    LET all == UNION { Perms(texts[o].fragments) : o \in DOMAIN texts }
    IN  { f \in [DOMAIN texts -> all] :
            \A o \in DOMAIN texts : f[o] \in Perms(texts[o].fragments) }

RECURSIVE Concat(_)
Concat(ss) == IF ss = <<>> THEN <<>> ELSE Head(ss) \o Concat(Tail(ss))

----------------------------------------------------------------------------
(* text_utils and string_compare, as the database uses them *)

clean_word(w) ==
    CASE w = "A" -> "a"
      [] w = "B" -> "b"
      [] OTHER   -> w

clean_text(text) == [i \in DOMAIN text |-> clean_word(text[i])]

RECURSIVE join(_)
join(ws) ==
    IF ws = <<>> THEN ""
    ELSE IF Len(ws) = 1 THEN ws[1]
    ELSE ws[1] \o " " \o join(Tail(ws))

\* Element i (1-based here, start index i-1 in the code) is the window of
\* nn words starting there; max(0, len - nn + 1) windows.
extract_clean_word_ngrams(words, nn) ==
    IF Len(words) < nn THEN <<>>
    ELSE [i \in 1..(Len(words) - nn + 1) |-> join(SubSeq(words, i, i + nn - 1))]

\* The words of a fragment string.
FragmentWindows ==
    UNION { [1..k -> CleanWords] : k \in NgramSizes }

SplitTable ==
    [f \in { join(ws) : ws \in FragmentWindows } |->
        CHOOSE ws \in FragmentWindows : join(ws) = f]

split(f) == SplitTable[f]

RECURSIVE levenshtein(_, _)
levenshtein(a, b) ==
    IF a = <<>> THEN Len(b)
    ELSE IF b = <<>> THEN Len(a)
    ELSE LET sub == levenshtein(Tail(a), Tail(b)) + (IF Head(a) = Head(b) THEN 0 ELSE 1)
             del == levenshtein(Tail(a), b) + 1
             ins == levenshtein(a, Tail(b)) + 1
             m1  == IF sub <= del THEN sub ELSE del
         IN  IF m1 <= ins THEN m1 ELSE ins

\* The edit distance of every two fragment strings, computed once.
DistanceTable ==
    [p \in (DOMAIN SplitTable) \X (DOMAIN SplitTable) |->
        levenshtein(split(p[1]), split(p[2]))]

is_plagiarised(a, b, m, cutoff) ==
    IF m = "Equal" THEN a = b
    ELSE DistanceTable[<<a, b>>] <= cutoff

----------------------------------------------------------------------------
(* The fragment indexer *)

\* The loop of get_textfragments over ngrams[i..], pushing onto an existing
\* key's vector or inserting a new one.
RECURSIVE locations_loop_overwrite(_, _, _, _)
locations_loop_overwrite(ngrams, i, nn, fragment_locations) ==
    IF i > Len(ngrams) THEN fragment_locations
    ELSE LET loc == <<i - 1, i - 1 + nn>>
         IN  locations_loop_overwrite(ngrams, i + 1, nn,
                 [f \in DOMAIN fragment_locations \cup {ngrams[i]} |->
                     IF f = ngrams[i] THEN <<loc>> ELSE fragment_locations[f]])

RECURSIVE locations_loop(_, _, _, _)
locations_loop(ngrams, i, nn, fragment_locations) ==
    IF i > Len(ngrams) THEN fragment_locations
    ELSE LET ngram == ngrams[i]
             start_location == i - 1
             loc == <<start_location, start_location + nn>>
         IN  IF ngram \in DOMAIN fragment_locations
             THEN locations_loop(ngrams, i + 1, nn,
                     [fragment_locations EXCEPT ![ngram] = Append(@, loc)])
             ELSE locations_loop(ngrams, i + 1, nn,
                     fragment_locations @@ (ngram :> <<loc>>))

get_textfragments(words, nn) ==
    LET ngrams == extract_clean_word_ngrams(words, nn)
    IN  [ fragments |-> Range(ngrams),
          fragment_locations |-> locations_loop(ngrams, 1, nn, <<>>) ]

TextEntry(owner_id, clean_text_words, nn) ==
    LET fl == get_textfragments(clean_text_words, nn)
    IN  [ owner |-> owner_id,
          clean_text_words |-> clean_text_words,
          fragments |-> fl.fragments,
          fragment_locations |-> fl.fragment_locations ]

insert_if_absent(texts, k, v) ==
    [o \in DOMAIN texts \cup {k} |-> IF o \in DOMAIN texts THEN texts[o] ELSE v]

\* HashMap::insert: the entry under key k is replaced, every other is kept.
insert(texts, k, v) ==
    [o \in DOMAIN texts \cup {k} |-> IF o = k THEN v ELSE texts[o]]

----------------------------------------------------------------------------
(* The matching engine *)

check_plagiarism_equal_source(source, against, sord, aord) ==
    [i \in 1..Len(sord) |-> <<sord[i], sord[i]>>]

\* HashSet::intersection visits the smaller of the two sets (source when
\* it has no more fragments than against) in that set's iteration order and
\* keeps the fragments the other set contains.
check_plagiarism_equal(source, against, sord, aord) ==
    LET intersect ==
            IF Cardinality(source.fragments) <= Cardinality(against.fragments)
            THEN SelectSeq(sord, LAMBDA f : f \in against.fragments)
            ELSE SelectSeq(aord, LAMBDA f : f \in source.fragments)
    IN  [i \in 1..Len(intersect) |-> <<intersect[i], intersect[i]>>]

check_plagiarism_other(source, m, against, sord, aord, cutoff) ==
    Concat([i \in 1..Len(sord) |->
        LET hits == SelectSeq(aord, LAMBDA af : is_plagiarised(sord[i], af, m, cutoff))
        IN  [j \in 1..Len(hits) |-> <<sord[i], hits[j]>>]])

----------------------------------------------------------------------------
(* Location resolution *)

\* The outcome of an index expression on a missing key: no location list
\* holds a negative position.
Fault == << <<-1, -1>> >>

\* texts[owner].fragment_locations[f], which panics on a missing key.
index_locations(texts, owner, f) ==
    IF owner \in DOMAIN texts /\ f \in DOMAIN texts[owner].fragment_locations
    THEN texts[owner].fragment_locations[f]
    ELSE Fault

fragments_to_locations(f1, owner1, f2, owner2) ==
    <<index_locations(untrusted_texts, owner1, f1),
      index_locations(untrusted_texts, owner2, f2)>>

fragments_to_locations_both_trusted(f1, owner1, f2, owner2) ==
    <<index_locations(trusted_texts, owner1, f1),
      index_locations(trusted_texts, owner2, f2)>>

fragments_to_locations_trusted(f1, owner1, f2, owner2) ==
    <<index_locations(trusted_texts, owner1, f1),
      index_locations(untrusted_texts, owner2, f2)>>

no_plagiarism_never(matching_fragments) == FALSE

\* The guard of run_metrics that drops a pair without matches.
no_plagiarism(matching_fragments) == matching_fragments = <<>>

locations_of_untrusted(is_trusted_owner1, f1, owner1, f2, owner2) ==
    fragments_to_locations(f1, owner1, f2, owner2)

\* The lookup run_metrics selects for the first owner.
locations_of(is_trusted_owner1, f1, owner1, f2, owner2) ==
    IF is_trusted_owner1
    THEN fragments_to_locations_trusted(f1, owner1, f2, owner2)
    ELSE fragments_to_locations(f1, owner1, f2, owner2)

\* Option<PlagiarismResult> as a sequence of at most one result.
run_metrics(source, against, is_trusted_owner1, sord, aord) ==
    LET matching_fragments ==
            IF metric = "Equal"
            THEN check_plagiarism_equal(source, against, sord, aord)
            ELSE check_plagiarism_other(source, metric, against, sord, aord, s)
    IN  IF no_plagiarism(matching_fragments) THEN <<>>
        ELSE << [ owner_id1 |-> source.owner,
                  owner_id2 |-> against.owner,
                  matching_fragments |-> matching_fragments,
                  matching_fragments_locations |->
                      [i \in 1..Len(matching_fragments) |->
                          locations_of(is_trusted_owner1,
                                       matching_fragments[i][1], source.owner,
                                       matching_fragments[i][2], against.owner)],
                  trusted_owner1 |-> is_trusted_owner1,
                  equal_fragments |-> (metric = "Equal") ] >>

faulted(rs) ==
    \E i \in DOMAIN rs : \E j \in DOMAIN rs[i].matching_fragments_locations :
        Fault \in Range(rs[i].matching_fragments_locations[j])

----------------------------------------------------------------------------
(* The pair enumerations *)

skip_count_same(sourceidx) == sourceidx

skip_count_two(sourceidx) == sourceidx + 2

\* .skip(sourceidx + 1) of the inner loop of check_untrusted_plagiarism.
skip_count(sourceidx) == sourceidx + 1

\* The (source, against) positions the untrusted double loop visits over k
\* values, in order; positions are 1-based, sourceidx is 0-based.
untrusted_pairs(k) ==
    Concat([i \in 1..k |->
        LET first == skip_count(i - 1) + 1
        IN  [j \in 1..(IF k >= first THEN k - first + 1 ELSE 0) |-> <<i, first + j - 1>>]])

trusted_pairs_first(kt, ku) ==
    Concat([i \in 1..(IF kt >= 1 THEN 1 ELSE 0) |-> [j \in 1..ku |-> <<i, j>>]])

\* The positions the trusted-against-untrusted double loop visits.
trusted_pairs(kt, ku) ==
    Concat([i \in 1..kt |-> [j \in 1..ku |-> <<i, j>>]])

----------------------------------------------------------------------------
(* Operations *)

NoCall(name) == [op |-> name, replaced |-> FALSE, changed |-> FALSE]

Init ==
    /\ n \in NgramSizes
    /\ s \in Cutoffs
    /\ metric \in Metrics
    /\ trusted_texts = <<>>
    /\ untrusted_texts = <<>>
    /\ results = <<>>
    /\ panicked = FALSE
    /\ last = NoCall("new")

Entries == Cardinality(DOMAIN trusted_texts) + Cardinality(DOMAIN untrusted_texts)

\* A call is made while no earlier call has panicked, and the store is
\* capped at MaxEntries entries.
CanAdd(texts, owner_id) ==
    /\ ~panicked
    /\ (owner_id \in DOMAIN texts \/ Entries < MaxEntries)

\* HashMap::insert returns Some(old entry) exactly when the key was present.
Replaces(texts, owner_id) == owner_id \in DOMAIN texts

add_trusted_text(owner_id, text) ==
    LET entry == TextEntry(owner_id, clean_text(text), n)
    IN  /\ CanAdd(trusted_texts, owner_id)
        /\ trusted_texts' = insert(trusted_texts, owner_id, entry)
        /\ results' = <<>>
        /\ last' = [op |-> "add_trusted",
                    replaced |-> Replaces(trusted_texts, owner_id),
                    changed |-> /\ owner_id \in DOMAIN trusted_texts
                                /\ trusted_texts[owner_id].fragments # entry.fragments]
        /\ UNCHANGED <<n, s, metric, untrusted_texts, panicked>>

add_untrusted_text(owner_id, text) ==
    LET entry == TextEntry(owner_id, clean_text(text), n)
    IN  /\ CanAdd(untrusted_texts, owner_id)
        /\ untrusted_texts' = insert(untrusted_texts, owner_id, entry)
        /\ results' = <<>>
        /\ last' = [op |-> "add_untrusted",
                    replaced |-> Replaces(untrusted_texts, owner_id),
                    changed |-> /\ owner_id \in DOMAIN untrusted_texts
                                /\ untrusted_texts[owner_id].fragments # entry.fragments]
        /\ UNCHANGED <<n, s, metric, trusted_texts, panicked>>

\* The results of the untrusted double loop for one iteration order of the
\* map (values) and one of every fragment set (ord).
untrusted_results(values, ord) ==
    LET pairs == untrusted_pairs(Len(values))
    IN  Concat([p \in 1..Len(pairs) |->
            run_metrics(untrusted_texts[values[pairs[p][1]]],
                        untrusted_texts[values[pairs[p][2]]],
                        FALSE,
                        ord[values[pairs[p][1]]],
                        ord[values[pairs[p][2]]])])

trusted_results(tvalues, uvalues, tord, uord) ==
    LET pairs == trusted_pairs(Len(tvalues), Len(uvalues))
    IN  Concat([p \in 1..Len(pairs) |->
            run_metrics(trusted_texts[tvalues[pairs[p][1]]],
                        untrusted_texts[uvalues[pairs[p][2]]],
                        TRUE,
                        tord[tvalues[pairs[p][1]]],
                        uord[uvalues[pairs[p][2]]])])

Return(name, rs) ==
    /\ IF faulted(rs)
       THEN results' = <<>> /\ panicked' = TRUE
       ELSE results' = rs /\ panicked' = FALSE
    /\ last' = NoCall(name)
    /\ UNCHANGED <<n, s, metric, trusted_texts, untrusted_texts>>

check_untrusted_plagiarism ==
    /\ ~panicked
    /\ \E values \in Perms(DOMAIN untrusted_texts),
          ord \in AllOrders(untrusted_texts) :
           Return("check_untrusted", untrusted_results(values, ord))

check_trusted_plagiarism ==
    /\ ~panicked
    /\ \E tvalues \in Perms(DOMAIN trusted_texts),
          uvalues \in Perms(DOMAIN untrusted_texts),
          tord \in AllOrders(trusted_texts),
          uord \in AllOrders(untrusted_texts) :
           Return("check_trusted", trusted_results(tvalues, uvalues, tord, uord))

AddTrusted == \E o \in TrustedOwners, t \in Texts : add_trusted_text(o, t)
AddUntrusted == \E o \in UntrustedOwners, t \in Texts : add_untrusted_text(o, t)

Next ==
    \/ AddTrusted
    \/ AddUntrusted
    \/ check_untrusted_plagiarism
    \/ check_trusted_plagiarism

Spec == Init /\ [][Next]_vars

\* The store of untrusted submissions over three owners, beside one
\* trusted reference.
AddSubmission == \E o \in SubmissionOwners, t \in Texts : add_untrusted_text(o, t)

AddReference == \E t \in Texts : add_trusted_text("t", t)

NextUntrusted ==
    \/ AddSubmission
    \/ AddReference
    \/ check_untrusted_plagiarism

SpecUntrusted == Init /\ [][NextUntrusted]_vars

\* The indexer alone: one untrusted owner over every short text, one
\* trusted owner over the texts of the store.
IndexUntrusted == \E t \in IndexTexts : add_untrusted_text("x", t)
IndexTrusted == \E t \in Texts : add_trusted_text("t", t)

NextIndex ==
    \/ IndexUntrusted
    \/ IndexTrusted

SpecIndex == Init /\ [][NextIndex]_vars

----------------------------------------------------------------------------
(* Vocabulary of the properties *)

Results == { results[i] : i \in DOMAIN results }

TrustedEntries == { trusted_texts[o] : o \in DOMAIN trusted_texts }
UntrustedEntries == { untrusted_texts[o] : o \in DOMAIN untrusted_texts }
AllEntries == TrustedEntries \cup UntrustedEntries

\* The 0-based start positions at which the window of nn words reads f.
Occurrences(words, f, nn) ==
    { i \in 0..(Len(words) - nn) : join(SubSeq(words, i + 1, i + nn)) = f }

\* The fragments of a word sequence, read off its windows.
WindowsOf(words, nn) ==
    { join(SubSeq(words, i + 1, i + nn)) : i \in 0..(Len(words) - nn) }

\* The relation the configured strategy matches fragments by.
Related(f1, f2) ==
    IF metric = "Equal" THEN f1 = f2 ELSE is_plagiarised(f1, f2, metric, s)

\* The match list of (e1, e2) is not empty.
HasMatch(e1, e2) ==
    \E f1 \in e1.fragments : \E f2 \in e2.fragments : Related(f1, f2)

\* The entry a result's first owner names.
FirstEntry(r) ==
    IF r.trusted_owner1 THEN trusted_texts[r.owner_id1] ELSE untrusted_texts[r.owner_id1]

SecondEntry(r) == untrusted_texts[r.owner_id2]

\* The indexes of the results about the unordered pair {o1, o2}.
ResultsAbout(o1, o2) ==
    { i \in DOMAIN results : {results[i].owner_id1, results[i].owner_id2} = {o1, o2} }

\* The indexes of the results about (o1, o2) in this orientation.
ResultsFor(o1, o2) ==
    { i \in DOMAIN results : results[i].owner_id1 = o1 /\ results[i].owner_id2 = o2 }

----------------------------------------------------------------------------
\* C1: check_untrusted_plagiarism reports every unordered pair of distinct
\* untrusted owners at most once: no result has owner_id1 = owner_id2, no
\* two results are about the same pair in either orientation, every result
\* is about two owners of the untrusted partition, and a pair whose entries
\* match has exactly one result.
C1_UntrustedPairsOnce ==
    last.op = "check_untrusted" =>
        /\ \A i \in DOMAIN results :
             /\ results[i].owner_id1 # results[i].owner_id2
             /\ results[i].owner_id1 \in DOMAIN untrusted_texts
             /\ results[i].owner_id2 \in DOMAIN untrusted_texts
             /\ ~results[i].trusted_owner1
        /\ \A i, j \in DOMAIN results :
             i # j => {results[i].owner_id1, results[i].owner_id2}
                        # {results[j].owner_id1, results[j].owner_id2}
        /\ \A o1, o2 \in DOMAIN untrusted_texts :
             (o1 # o2 /\ HasMatch(untrusted_texts[o1], untrusted_texts[o2])
                      /\ HasMatch(untrusted_texts[o2], untrusted_texts[o1]))
                 => Cardinality(ResultsAbout(o1, o2)) = 1

\* Three untrusted owners were compared and all three pairs reported.
C1_Witness ==
    /\ last.op = "check_untrusted"
    /\ Cardinality(DOMAIN untrusted_texts) = 3
    /\ Len(results) = 3

----------------------------------------------------------------------------
\* The entry add_*_text(o, t) must leave under o.
Rebuilt(entry, o, t) ==
    /\ entry.owner = o
    /\ entry.clean_text_words = clean_text(t)
    /\ entry.fragments = WindowsOf(clean_text(t), n)
    /\ DOMAIN entry.fragment_locations = WindowsOf(clean_text(t), n)
    /\ \A f \in DOMAIN entry.fragment_locations :
         { entry.fragment_locations[f][k][1] : k \in DOMAIN entry.fragment_locations[f] }
             = Occurrences(clean_text(t), f, n)

\* Every fragment of a result is a fragment of the entry its owner holds,
\* and its locations are those the entry holds for it.
DerivedFromStore ==
    \A r \in Results : \A k \in DOMAIN r.matching_fragments :
        /\ r.matching_fragments[k][1] \in FirstEntry(r).fragments
        /\ r.matching_fragments[k][2] \in SecondEntry(r).fragments
        /\ r.matching_fragments_locations[k][1]
              = FirstEntry(r).fragment_locations[r.matching_fragments[k][1]]
        /\ r.matching_fragments_locations[k][2]
              = SecondEntry(r).fragment_locations[r.matching_fragments[k][2]]

\* What a step that is a call add_untrusted_text(o, t) must do.
UntrustedOverwritten ==
    \A o \in UntrustedOwners : \A t \in Texts :
        add_untrusted_text(o, t) =>
            /\ DOMAIN untrusted_texts' = DOMAIN untrusted_texts \cup {o}
            /\ Rebuilt(untrusted_texts'[o], o, t)
            /\ \A p \in DOMAIN untrusted_texts \ {o} :
                 untrusted_texts'[p] = untrusted_texts[p]
            /\ trusted_texts' = trusted_texts

\* What a step that is a call add_trusted_text(o, t) must do.
TrustedOverwritten ==
    \A o \in TrustedOwners : \A t \in Texts :
        add_trusted_text(o, t) =>
            /\ DOMAIN trusted_texts' = DOMAIN trusted_texts \cup {o}
            /\ Rebuilt(trusted_texts'[o], o, t)
            /\ \A p \in DOMAIN trusted_texts \ {o} :
                 trusted_texts'[p] = trusted_texts[p]
            /\ untrusted_texts' = untrusted_texts

OverwriteStep ==
    /\ last'.op = "add_untrusted" => UntrustedOverwritten
    /\ last'.op = "add_trusted" => TrustedOverwritten
    /\ last'.op \in {"check_untrusted", "check_trusted"} =>
         /\ untrusted_texts' = untrusted_texts
         /\ trusted_texts' = trusted_texts
         /\ DerivedFromStore'

\* C2: overwrite semantics.  A step add_untrusted_text(o, t) (likewise
\* add_trusted_text) leaves exactly one entry under o, built from t alone
\* (its words, its fragments and their locations are those of t), and
\* leaves every other entry of the partition and the whole other partition
\* as they were; a query leaves the store as it is, and its results hold
\* only fragments and locations of the entries the store holds then.
C2_Overwrite == [][OverwriteStep]_vars

\* An add has just replaced an entry of the same owner that held other
\* fragments, beside an entry of another owner.
C2_Witness ==
    /\ last.op = "add_untrusted"
    /\ last.replaced
    /\ last.changed
    /\ Cardinality(DOMAIN untrusted_texts) >= 2

----------------------------------------------------------------------------
\* C3: check_trusted_plagiarism reports the full cross product: every
\* trusted owner T and untrusted owner U whose entries match have exactly
\* one result (T, U) flagged trusted_owner1, and every result is such a
\* pair, its first fragments those of T's trusted entry and its second
\* those of U's untrusted entry.
C3_TrustedCrossProduct ==
    last.op = "check_trusted" =>
        /\ \A T \in DOMAIN trusted_texts : \A U \in DOMAIN untrusted_texts :
             HasMatch(trusted_texts[T], untrusted_texts[U])
                 => /\ Cardinality(ResultsFor(T, U)) = 1
                    /\ \A i \in ResultsFor(T, U) : results[i].trusted_owner1
        /\ \A i \in DOMAIN results :
             /\ results[i].trusted_owner1
             /\ results[i].owner_id1 \in DOMAIN trusted_texts
             /\ results[i].owner_id2 \in DOMAIN untrusted_texts
             /\ HasMatch(trusted_texts[results[i].owner_id1],
                         untrusted_texts[results[i].owner_id2])
             /\ \A k \in DOMAIN results[i].matching_fragments :
                  /\ results[i].matching_fragments[k][1]
                        \in trusted_texts[results[i].owner_id1].fragments
                  /\ results[i].matching_fragments[k][2]
                        \in untrusted_texts[results[i].owner_id2].fragments

\* Two trusted owners were compared with an untrusted one and both pairs
\* reported, one of them the owner id that is in both partitions.
C3_Witness ==
    /\ last.op = "check_trusted"
    /\ Cardinality(DOMAIN trusted_texts) = 2
    /\ Len(results) = 2
    /\ \E i \in DOMAIN results : results[i].owner_id1 = results[i].owner_id2

----------------------------------------------------------------------------
\* C4: absence of evidence.  No result has an empty matching_fragments list,
\* and a compared pair without a match (which includes every pair with an
\* entry of fewer than n words) has no result.
C4_AbsenceOfEvidence ==
    /\ \A r \in Results : r.matching_fragments # <<>>
    /\ last.op = "check_untrusted" =>
         \A o1, o2 \in DOMAIN untrusted_texts :
             (\/ ~HasMatch(untrusted_texts[o1], untrusted_texts[o2])
              \/ Len(untrusted_texts[o1].clean_text_words) < n
              \/ Len(untrusted_texts[o2].clean_text_words) < n)
                 => ResultsFor(o1, o2) = {}
    /\ last.op = "check_trusted" =>
         \A o1 \in DOMAIN trusted_texts : \A o2 \in DOMAIN untrusted_texts :
             (\/ ~HasMatch(trusted_texts[o1], untrusted_texts[o2])
              \/ Len(trusted_texts[o1].clean_text_words) < n
              \/ Len(untrusted_texts[o2].clean_text_words) < n)
                 => ResultsFor(o1, o2) = {}

\* A query reported one pair and left out another whose entry has fewer
\* than n words.
C4_Witness ==
    /\ last.op \in {"check_untrusted", "check_trusted"}
    /\ results # <<>>
    /\ \E o \in DOMAIN untrusted_texts :
         /\ Len(untrusted_texts[o].clean_text_words) < n
         /\ \A r \in Results : r.owner_id2 # o /\ (r.trusted_owner1 \/ r.owner_id1 # o)

----------------------------------------------------------------------------
\* C5: under the Equal strategy the engine returns the intersection of the
\* two fragment sets: every pair is (f, f), every shared fragment is there,
\* none twice, and the swapped comparison returns the same set; the
\* results of a query under Equal hold that intersection.
C5_EqualIsIntersection ==
    /\ \A e1, e2 \in AllEntries :
       \A o1 \in Perms(e1.fragments) : \A o2 \in Perms(e2.fragments) :
         LET out == check_plagiarism_equal(e1, e2, o1, o2)
         IN  /\ Range(out) = { <<f, f>> : f \in e1.fragments \cap e2.fragments }
             /\ Len(out) = Cardinality(Range(out))
             /\ Range(check_plagiarism_equal(e2, e1, o2, o1)) = Range(out)
    /\ metric = "Equal" =>
         \A r \in Results :
             Range(r.matching_fragments)
                 = { <<f, f>> : f \in FirstEntry(r).fragments \cap SecondEntry(r).fragments }

\* A query under Equal reported a pair whose source holds more fragments
\* than against (the set the intersection walks is then against) and shares
\* a fragment with it.
C5_Witness ==
    /\ metric = "Equal"
    /\ \E r \in Results :
         /\ Cardinality(FirstEntry(r).fragments) > Cardinality(SecondEntry(r).fragments)
         /\ r.matching_fragments # <<>>

----------------------------------------------------------------------------
\* The pairs of distinct untrusted owners that hold the same words.
SameText(o1, o2) ==
    /\ o1 # o2
    /\ untrusted_texts[o1].clean_text_words = untrusted_texts[o2].clean_text_words

\* One result about {o1, o2}, covering the shared fragment set as (f, f).
OneReflexiveResult(o1, o2) ==
    /\ Cardinality(ResultsAbout(o1, o2)) = 1
    /\ \A i \in ResultsAbout(o1, o2) :
         /\ Range(results[i].matching_fragments)
               = { <<f, f>> : f \in untrusted_texts[o1].fragments }
         /\ Len(results[i].matching_fragments)
               = Cardinality(untrusted_texts[o1].fragments)
         /\ results[i].equal_fragments

\* C6 as stated: under Equal, two distinct untrusted owners with identical
\* text yield one result covering the shared fragment set, each as (f, f),
\* with equal_fragments true.
C6_AsStated ==
    (last.op = "check_untrusted" /\ metric = "Equal") =>
        \A o1, o2 \in DOMAIN untrusted_texts :
            SameText(o1, o2) => OneReflexiveResult(o1, o2)

\* C6: under Equal, two distinct untrusted owners with identical text of at
\* least n words yield one result covering the shared fragment set, each as
\* (f, f), with equal_fragments true.
C6_ReflexiveEqual ==
    (last.op = "check_untrusted" /\ metric = "Equal") =>
        \A o1, o2 \in DOMAIN untrusted_texts :
            (SameText(o1, o2) /\ Len(untrusted_texts[o1].clean_text_words) >= n)
                => OneReflexiveResult(o1, o2)

\* Two owners with the same text of two fragments were compared under Equal.
C6_Witness ==
    /\ last.op = "check_untrusted"
    /\ metric = "Equal"
    /\ \E o1, o2 \in DOMAIN untrusted_texts :
         /\ SameText(o1, o2)
         /\ Cardinality(untrusted_texts[o1].fragments) = 2
         /\ ResultsAbout(o1, o2) # {}

----------------------------------------------------------------------------
\* C7: a database is never constructed with n = 0.
C7_ZeroRejected == n # 0

----------------------------------------------------------------------------
\* C8: in every result matching_fragments and matching_fragments_locations
\* have the same length, and entry i of the latter is the location list of
\* the first fragment in the first owner's entry (the trusted partition's
\* when trusted_owner1, else the untrusted one's) with the location list of
\* the second fragment in the second owner's untrusted entry.
C8_LocationsAligned ==
    \A r \in Results :
        /\ Len(r.matching_fragments) = Len(r.matching_fragments_locations)
        /\ \A k \in DOMAIN r.matching_fragments :
             r.matching_fragments_locations[k]
                 = << FirstEntry(r).fragment_locations[r.matching_fragments[k][1]],
                      SecondEntry(r).fragment_locations[r.matching_fragments[k][2]] >>

\* A trusted query reported an owner id that is in both partitions, whose
\* two entries locate the matched fragment differently.
C8_Witness ==
    \E r \in Results : \E k \in DOMAIN r.matching_fragments :
        LET fa == r.matching_fragments[k][1]
        IN  /\ r.trusted_owner1
            /\ r.owner_id1 \in DOMAIN untrusted_texts
            /\ fa \in DOMAIN untrusted_texts[r.owner_id1].fragment_locations
            /\ untrusted_texts[r.owner_id1].fragment_locations[fa]
                 # trusted_texts[r.owner_id1].fragment_locations[fa]
            /\ Len(r.matching_fragments) >= 2

----------------------------------------------------------------------------
\* Some iteration order of a set.
AnyOrder(S) == CHOOSE q \in Perms(S) : TRUE

\* The pairs the configured strategy produces for (source, against).
EnginePairs(source, against) ==
    Range(IF metric = "Equal"
          THEN check_plagiarism_equal(source, against, AnyOrder(source.fragments),
                                      AnyOrder(against.fragments))
          ELSE check_plagiarism_other(source, metric, against,
                                      AnyOrder(source.fragments),
                                      AnyOrder(against.fragments), s))

\* C10: location lookups never fault.  No query has hit a missing key, every
\* entry is stored under its own owner id, and for every pair a query
\* compares and every (fa, fb) the engine produces for it, both lookups of
\* the selected resolution find their owner and their fragment.
C10_LookupsNeverFault ==
    /\ ~panicked
    /\ \A o \in DOMAIN untrusted_texts : untrusted_texts[o].owner = o
    /\ \A o \in DOMAIN trusted_texts : trusted_texts[o].owner = o
    /\ \A e1, e2 \in UntrustedEntries : \A p \in EnginePairs(e1, e2) :
         Fault \notin Range(locations_of(FALSE, p[1], e1.owner, p[2], e2.owner))
    /\ \A e1 \in TrustedEntries : \A e2 \in UntrustedEntries :
         \A p \in EnginePairs(e1, e2) :
             Fault \notin Range(locations_of(TRUE, p[1], e1.owner, p[2], e2.owner))

\* A trusted query under a similarity strategy reported a trusted owner that
\* is not in the untrusted partition, matching two different fragments.
C10_Witness ==
    /\ last.op = "check_trusted"
    /\ metric # "Equal"
    /\ \E r \in Results :
         /\ r.owner_id1 \notin DOMAIN untrusted_texts
         /\ \E k \in DOMAIN r.matching_fragments :
              r.matching_fragments[k][1] # r.matching_fragments[k][2]

----------------------------------------------------------------------------
\* C9: in every entry of the store the keys of fragment_locations are the
\* fragments; every location list has strictly increasing starts, exactly
\* the occurrences of its fragment in the entry's words, and elements of
\* width n; the words a b a b with n = 2 give "a b" at (0,2), (2,4) and
\* "b a" at (1,3).
C9_IndexInvariant ==
    \A e \in AllEntries :
        /\ DOMAIN e.fragment_locations = e.fragments
        /\ e.fragments = WindowsOf(e.clean_text_words, n)
        /\ \A f \in e.fragments :
             LET locs == e.fragment_locations[f]
             IN  /\ \A i \in 1..(Len(locs) - 1) : locs[i][1] < locs[i + 1][1]
                 /\ Len(locs) = Cardinality(Occurrences(e.clean_text_words, f, n))
                 /\ { locs[i][1] : i \in DOMAIN locs }
                       = Occurrences(e.clean_text_words, f, n)
                 /\ \A i \in DOMAIN locs : locs[i][2] - locs[i][1] = n
        /\ (e.clean_text_words = <<"a", "b", "a", "b">> /\ n = 2) =>
             /\ e.fragments = {"a b", "b a"}
             /\ e.fragment_locations["a b"] = << <<0, 2>>, <<2, 4>> >>
             /\ e.fragment_locations["b a"] = << <<1, 3>> >>

\* The words a b a b are indexed with n = 2.
C9_Witness ==
    /\ n = 2
    /\ \E e \in UntrustedEntries : e.clean_text_words = <<"a", "b", "a", "b">>

====
